---- MODULE Spec2Model ----
(***************************************************************************)
(* A model of threeify's LayerCompositor: the texture cache with its       *)
(* asynchronous loader (loadTexImage2D / discardTexImage2D) and the        *)
(* double-buffered render pipeline (render / renderLayersToFramebuffer).   *)
(*                                                                         *)
(* JavaScript runs the compositor's methods to completion on one thread;   *)
(* the only suspension point is `await fetchImage(url)` inside a load      *)
(* task.  Every method call is therefore one action, and the continuation  *)
(* of a load task after its fetch is one action of its own.                *)
(***************************************************************************)
EXTENDS Integers, Sequences, FiniteSets, TLC

\* ------------------------------------------------------------------ bounds

\* The image identifiers callers ask for.
Urls == {"a", "b"}

\* At most this many load tasks (promises) are ever started.
MaxTasks == 2

\* At most this many loadTexImage2D calls are made for one url while the task of
\* the first of them is still pending.
MaxBurst == 2

\* At most this many dispose() calls are made on one object.
MaxDisposes == 3

\* At most this many render() calls are made.
MaxRenders == 3

\* At most this many assignments to `layers` are made.
MaxVersion == 2

\* A layer stack holds at most this many layers.
MaxLayers == 2

\* The offscreen targets are allocated at most this many times.
MaxAllocs == 2

\* "no promise" in texImage2DPromiseCache, "no LayerImage" in layerImageCache,
\* and the null a cancelled task resolves to.
NoTask == 0
NoImage == 0

VARIABLES
  desiredImages,            \* Set<string>
  texImage2DPromiseCache,   \* url -> load task, or NoTask
  layerImageCache,          \* url -> LayerImage, or NoImage
  tasks,                    \* the load tasks started so far, in order
  layerImages,              \* the LayerImage objects created so far, by id
  ret,                      \* the call the last step made and what it returned
                            \* (NoCall after a step of a load task)
  group,                    \* history: per url, the calls of the current burst
  loadedSinceDiscard,       \* history: urls with a completed load and no discard since
  autoDiscard,              \* boolean
  renderId,                 \* number
  layers,                   \* #layers
  layerVersion,             \* #layerVersion
  offlineLayerVersion,      \* #offlineLayerVersion
  imageSize,                \* Vector2, as <<x, y>>
  offscreenSize,            \* Vector2, as <<x, y>>
  offscreenWriteFramebuffer,      \* the generation of the object, 0 for undefined
  offscreenWriteColorAttachment,
  offscreenReadFramebuffer,
  offscreenReadColorAttachment,
  gpuObjects,               \* every framebuffer and attachment made: disposed or not
  writePixels,              \* what the write target's color attachment holds
  readPixels,               \* what the read target's color attachment holds
  ops,                      \* the GL operations the last render() issued, in order
  assignedSinceRender,      \* history: `layers` was assigned since the last render()
  imageFitMode,             \* ImageFitMode
  zoomScale,                \* number, as a fraction
  panPosition,              \* Vector2 of fractions
  canvasFramebuffer,        \* context.canvasFramebuffer: size and devicePixelRatio
  imageToCanvas,            \* what the last render() computed for its view matrix
  texImage2D,               \* a TexImage2D a client constructs, or NoObject
  layerImage,               \* a LayerImage made by createTexture, or NoObject
  framebuffer,              \* a Framebuffer a client constructs, or NoObject
  contextFramebuffer        \* context.framebuffer: the framebuffer that is bound

loaderVars == <<desiredImages, texImage2DPromiseCache, layerImageCache, tasks,
                layerImages, group, loadedSinceDiscard>>

offscreenVars == <<offscreenSize, offscreenWriteFramebuffer,
                   offscreenWriteColorAttachment, offscreenReadFramebuffer,
                   offscreenReadColorAttachment, gpuObjects>>

viewVars == <<imageFitMode, zoomScale, panPosition, canvasFramebuffer>>

resourceVars == <<texImage2D, layerImage, framebuffer, contextFramebuffer>>

renderVars == <<autoDiscard, renderId, layers, layerVersion, offlineLayerVersion,
                imageSize, offscreenVars, writePixels, readPixels, ops,
                assignedSinceRender, viewVars, imageToCanvas, resourceVars>>

vars == <<loaderVars, ret, renderVars>>

TaskIds == 1..Len(tasks)
ImageIds == DOMAIN layerImages

\* ------------------------------------------------------------- LayerImage

\* new LayerImage(url, texImage2D, image): the texture of LayerImage i is
\* texture i; `image` says whether the bitmap handle is still held.
NewLayerImage(u) ==
  [url |-> u, disposed |-> FALSE, renderId |-> -1, image |-> "held"]

\* LayerImage.dispose(): releases the texture and the bitmap, once.
LayerImageDispose(li) ==
  IF ~li.disposed THEN [li EXCEPT !.disposed = TRUE, !.image = "released"] ELSE li

\* ------------------------------------------------------------------ tasks

Pending(t) == tasks[t].status = "fetching"
Settled(t) == tasks[t].status # "fetching"

\* The fetches started and not yet completed for url u.
OutstandingFetches(u) == {t \in TaskIds : tasks[t].url = u /\ Pending(t)}

NoGroup == [first |-> NoTask, joined |-> {}, fetches |-> 0, calls |-> 0]

\* The offscreen image is cut in regions; a layer's quad (layer.planeToImage
\* applied to the unit plane) covers some of them.  A region of a target holds
\* the stack positions of the layers blended into it since the last clear, in
\* blending order.
Cells == {1, 2}
Blank == [p \in Cells |-> <<>>]

\* The layers a caller builds: url, whether the blend mode needs no read of the
\* destination, the regions covered, and the url of the mask ("" for none).
LayerShapes ==
  { [url |-> "a", isTriviallyBlended |-> TRUE,  rect |-> {1, 2}, mask |-> ""],
    [url |-> "b", isTriviallyBlended |-> FALSE, rect |-> {1},    mask |-> "a"] }

\* The image sizes a caller sets: they round up to the same size, which is not
\* the rounded size of the initial (0, 0).
ImageSizes == {<<200, 100>>, <<256, 128>>}

NoCall == [op |-> "none", url |-> "", task |-> NoTask, ok |-> FALSE]

\* An object a client has not constructed, or whose constructor threw.
NoObject == [exists |-> FALSE]

\* The canvas framebuffer, bound when no other is: it has no attachment.
DefaultFramebuffer ==
  [color0 |-> FALSE, pixelFormat |-> "RGBA", complete |-> TRUE,
   pixelByteLength |-> 0]

\* ---------------------------------------------------------------- numbers

\* The numbers of the view computation are fractions <<n, d>> in lowest terms
\* with d > 0, so that equal numbers are equal values.
Abs(n) == IF n < 0 THEN -n ELSE n

RECURSIVE GCD(_, _)
GCD(a, b) == IF b = 0 THEN a ELSE GCD(b, a % b)

Rat(n, d) ==
  LET s == IF d < 0 THEN -1 ELSE 1
      g == GCD(Abs(n), Abs(d))
  IN <<(s * n) \div g, (s * d) \div g>>

Num(n) == <<n, 1>>
Half == <<1, 2>>

RMul(a, b) == Rat(a[1] * b[1], a[2] * b[2])
RAdd(a, b) == Rat(a[1] * b[2] + b[1] * a[2], a[2] * b[2])
RSub(a, b) == Rat(a[1] * b[2] - b[1] * a[2], a[2] * b[2])
RInv(a) == Rat(a[2], a[1])
RLeq(a, b) == a[1] * b[2] <= b[1] * a[2]
RLess(a, b) == a[1] * b[2] < b[1] * a[2]
RAbs(a) == <<Abs(a[1]), a[2]>>
RMin(a, b) == IF RLeq(a, b) THEN a ELSE b
RSign(a) == Num(IF a[1] > 0 THEN 1 ELSE IF a[1] < 0 THEN -1 ELSE 0)

\* Vector2.multiplyByScalar, add, sub
VScale(v, s) == <<RMul(v[1], s), RMul(v[2], s)>>
VAdd(v, w) == <<RAdd(v[1], w[1]), RAdd(v[2], w[2])>>
VSub(v, w) == <<RSub(v[1], w[1]), RSub(v[2], w[2])>>
VNum(v) == <<Num(v[1]), Num(v[2])>>

\* ------------------------------------------------------------- the canvas

\* The canvases the compositor presents on: the size of the drawing buffer in
\* pixels and the device pixel ratio.
CanvasFramebuffers ==
  { [size |-> <<300, 150>>, devicePixelRatio |-> 1],
    [size |-> <<800, 600>>, devicePixelRatio |-> 2] }

ImageFitModes == {"FitWidth", "FitHeight"}
ZoomScales == {Num(1), Num(2)}

\* The pointer positions a caller passes as panPosition: the initial one, one
\* inside the canvas, and two far outside of it.
PanPositions ==
  { <<Half, Half>>, <<Num(200), Num(75)>>,
    <<Num(-300), Num(5000)>>, <<Num(4000), Num(-100)>> }

\* The image sizes set where the view is computed.
ViewImageSizes == {<<1000, 1000>>, <<200, 100>>}

\* The view of a render() that had no image extent to fit: its numbers are
\* not finite.
NotFinite == [finite |-> FALSE]

Init ==
  /\ desiredImages = {}
  /\ texImage2DPromiseCache = [u \in Urls |-> NoTask]
  /\ layerImageCache = [u \in Urls |-> NoImage]
  /\ tasks = <<>>
  /\ layerImages = <<>>
  /\ ret = NoCall
  /\ group = [u \in Urls |-> NoGroup]
  /\ loadedSinceDiscard = {}
  /\ autoDiscard = FALSE
  /\ renderId = 0
  /\ layers = <<>>
  /\ layerVersion = 0
  /\ offlineLayerVersion = -1
  /\ imageSize = <<0, 0>>
  /\ offscreenSize = <<0, 0>>
  /\ offscreenWriteFramebuffer = 0
  /\ offscreenWriteColorAttachment = 0
  /\ offscreenReadFramebuffer = 0
  /\ offscreenReadColorAttachment = 0
  /\ gpuObjects = <<>>
  /\ writePixels = Blank
  /\ readPixels = Blank
  /\ ops = <<>>
  /\ assignedSinceRender = FALSE
  /\ imageFitMode = "FitHeight"
  /\ zoomScale = Num(1)
  /\ panPosition = <<Half, Half>>
  /\ canvasFramebuffer = [size |-> <<300, 150>>, devicePixelRatio |-> 1]
  /\ imageToCanvas = NotFinite
  /\ texImage2D = NoObject
  /\ layerImage = NoObject
  /\ framebuffer = NoObject
  /\ contextFramebuffer = DefaultFramebuffer

\* ------------------------------------------------------ history variables

\* A burst is the run of loadTexImage2D(u) calls made while the task the first
\* of them got is pending, with no discardTexImage2D(u) in between.
BurstOpen(u) == group[u].first # NoTask /\ Pending(group[u].first)

\* The burst of u after a load call that got task t (pending or not after the
\* call) and started `started` fetches.
GroupAfterLoad(u, t, pendingAfter, started) ==
  IF BurstOpen(u)
    THEN [group[u] EXCEPT !.joined = @ \cup {t}, !.fetches = @ + started,
                          !.calls = @ + 1]
    ELSE IF pendingAfter
      THEN [first |-> t, joined |-> {t}, fetches |-> started, calls |-> 1]
      ELSE NoGroup

\* -------------------------------------------------------- loadTexImage2D

\* `const existingValue = this.texImage2DPromiseCache[url];
\*  if (existingValue) return existingValue;`
\* (ExistingNever: the lookup finds nothing, every call starts a task.)
ExistingNever(u) == NoTask
ExistingValue(u) == texImage2DPromiseCache[u]

\* loadTexImage2D(url) with no image: url becomes desired; an existing promise
\* is returned as is; otherwise a new task is started, which calls fetchImage
\* and suspends, and the promise is stored.
loadTexImage2D(u) ==
  LET existing == ExistingValue(u)
      t == Len(tasks) + 1
  IN
  /\ BurstOpen(u) => group[u].calls < MaxBurst
  /\ desiredImages' = desiredImages \cup {u}
  /\ IF existing # NoTask
       THEN /\ ret' = [op |-> "load", url |-> u, task |-> existing, ok |-> TRUE]
            /\ group' = [group EXCEPT ![u] =
                           GroupAfterLoad(u, existing, Pending(existing), 0)]
            /\ UNCHANGED <<tasks, texImage2DPromiseCache>>
       ELSE /\ Len(tasks) < MaxTasks
            /\ tasks' = Append(tasks, [url |-> u, status |-> "fetching",
                                       result |-> NoImage, bitmap |-> "none",
                                       hadToFetch |-> TRUE, discarded |-> FALSE])
            /\ texImage2DPromiseCache' = [texImage2DPromiseCache EXCEPT ![u] = t]
            /\ ret' = [op |-> "load", url |-> u, task |-> t, ok |-> TRUE]
            /\ group' = [group EXCEPT ![u] = GroupAfterLoad(u, t, TRUE, 1)]
  /\ UNCHANGED <<layerImageCache, layerImages, loadedSinceDiscard>>
  /\ UNCHANGED renderVars

\* loadTexImage2D(url, image) with a decoded image: as above, but a new task
\* has no await before its cache update, so it runs to its end inside the call:
\* url was just made desired, the LayerImage is created and stored, and the
\* promise stored in texImage2DPromiseCache is already resolved.
loadTexImage2DWithImage(u) ==
  LET existing == ExistingValue(u)
      t == Len(tasks) + 1
  IN
  /\ BurstOpen(u) => group[u].calls < MaxBurst
  /\ desiredImages' = desiredImages \cup {u}
  /\ IF existing # NoTask
       THEN /\ ret' = [op |-> "loadImage", url |-> u, task |-> existing, ok |-> TRUE]
            /\ group' = [group EXCEPT ![u] =
                           GroupAfterLoad(u, existing, Pending(existing), 0)]
            /\ UNCHANGED <<tasks, texImage2DPromiseCache, layerImageCache,
                           layerImages, loadedSinceDiscard>>
       ELSE /\ Len(tasks) < MaxTasks
            /\ tasks' = Append(tasks, [url |-> u, status |-> "resolved",
                                       result |-> t, bitmap |-> "held",
                                       hadToFetch |-> FALSE, discarded |-> FALSE])
            /\ layerImages' = (t :> NewLayerImage(u)) @@ layerImages
            /\ layerImageCache' = [layerImageCache EXCEPT ![u] = t]
            /\ texImage2DPromiseCache' = [texImage2DPromiseCache EXCEPT ![u] = t]
            /\ loadedSinceDiscard' = loadedSinceDiscard \cup {u}
            /\ ret' = [op |-> "loadImage", url |-> u, task |-> t, ok |-> TRUE]
            /\ group' = [group EXCEPT ![u] = GroupAfterLoad(u, t, FALSE, 0)]
  /\ UNCHANGED renderVars

\* `if (!this.desiredImages.has(url))` after the await.
\* (StillDesiredAlways: the check after the await is left out.
\* StillDesiredNever: the check always fails.)
StillDesiredAlways(u) == TRUE
StillDesiredNever(u) == FALSE
StillDesired(u) == u \in desiredImages

\* The continuation of task t after `await fetchImage(url)` resolved: a task
\* whose url is no longer desired deletes the promise entry of the url,
\* releases the bitmap and resolves null; otherwise it creates the LayerImage,
\* stores it in layerImageCache and resolves with its texture.
fetchCompletes(t) ==
  LET u == tasks[t].url IN
  /\ Pending(t)
  /\ IF ~StillDesired(u)
       THEN /\ texImage2DPromiseCache' = [texImage2DPromiseCache EXCEPT ![u] = NoTask]
            /\ tasks' = [tasks EXCEPT ![t].status = "cancelled",
                                      ![t].bitmap = "released"]
            /\ UNCHANGED <<layerImageCache, layerImages, loadedSinceDiscard>>
       ELSE /\ layerImages' = (t :> NewLayerImage(u)) @@ layerImages
            /\ layerImageCache' = [layerImageCache EXCEPT ![u] = t]
            /\ tasks' = [tasks EXCEPT ![t].status = "resolved", ![t].result = t,
                                      ![t].bitmap = "held"]
            /\ loadedSinceDiscard' =
                 IF u \in desiredImages THEN loadedSinceDiscard \cup {u}
                                        ELSE loadedSinceDiscard
            /\ UNCHANGED texImage2DPromiseCache
  /\ ret' = NoCall
  /\ UNCHANGED <<desiredImages, group>>
  /\ UNCHANGED renderVars

\* fetchImage(url) rejects: the await throws, the task's promise is rejected
\* and nothing else runs.
fetchFails(t) ==
  /\ Pending(t)
  /\ tasks' = [tasks EXCEPT ![t].status = "rejected"]
  /\ ret' = NoCall
  /\ UNCHANGED <<desiredImages, texImage2DPromiseCache, layerImageCache,
                 layerImages, group, loadedSinceDiscard>>
  /\ UNCHANGED renderVars

\* ----------------------------------------------------- discardTexImage2D

\* `delete this.texImage2DPromiseCache[url]` for every url of S.
\* (KeepPromises: the delete is left out.)
KeepPromises(S) == texImage2DPromiseCache
PromisesAfterDiscard(S) ==
  [u \in Urls |-> IF u \in S THEN NoTask ELSE texImage2DPromiseCache[u]]

\* `this.layerImageCache[url]?.dispose()` for every url of S.
ImagesAfterDiscard(images, S) ==
  [i \in DOMAIN images |->
     IF \E u \in S : layerImageCache[u] = i
       THEN LayerImageDispose(images[i]) ELSE images[i]]

\* `delete this.layerImageCache[url]` for every url of S.
\* (KeepResident: the entries stay.)
KeepResident(S) == layerImageCache
ResidentAfterDiscard(S) ==
  [u \in Urls |-> IF u \in S THEN NoImage ELSE layerImageCache[u]]

\* History: the pending tasks of the urls of S have seen a discard.
TasksAfterDiscard(S) ==
  [t \in TaskIds |->
     IF tasks[t].url \in S /\ Pending(t)
       THEN [tasks[t] EXCEPT !.discarded = TRUE] ELSE tasks[t]]

\* `if (!this.desiredImages.has(url)) return false;`
\* (DiscardAlways: the early return is left out.)
DiscardAlways(u) == TRUE
DiscardApplies(u) == u \in desiredImages

\* discardTexImage2D(url)
discardTexImage2D(u) ==
  /\ UNCHANGED renderVars
  /\ IF ~DiscardApplies(u)
    THEN /\ ret' = [op |-> "discard", url |-> u, task |-> NoTask, ok |-> FALSE]
         /\ UNCHANGED <<desiredImages, texImage2DPromiseCache, layerImageCache,
                        tasks, layerImages, group, loadedSinceDiscard>>
    ELSE /\ desiredImages' = desiredImages \ {u}
         /\ layerImages' = ImagesAfterDiscard(layerImages, {u})
         /\ layerImageCache' = ResidentAfterDiscard({u})
         /\ texImage2DPromiseCache' = PromisesAfterDiscard({u})
         /\ tasks' = TasksAfterDiscard({u})
         /\ group' = [group EXCEPT ![u] = NoGroup]
         /\ loadedSinceDiscard' = loadedSinceDiscard \ {u}
         /\ ret' = [op |-> "discard", url |-> u, task |-> NoTask, ok |-> TRUE]

\* ------------------------------------------------------------ the fields

\* `set layers(layers)`: the stack is replaced and the version bumped.  A layer
\* is built with the texture its url has in the cache at that moment (0: a
\* texture the compositor does not manage).
NoMask == [url |-> "", texImage2D |-> NoImage]

MakeLayer(shape) ==
  [url |-> shape.url,
   texImage2D |-> layerImageCache[shape.url],
   isTriviallyBlended |-> shape.isTriviallyBlended,
   rect |-> shape.rect,
   mask |-> IF shape.mask = "" THEN NoMask
            ELSE [url |-> shape.mask, texImage2D |-> layerImageCache[shape.mask]]]

LayerStacks ==
  UNION {[1..n -> LayerShapes] : n \in 0..MaxLayers}

setLayers(shapes) ==
  /\ layerVersion < MaxVersion
  /\ layers' = [i \in 1..Len(shapes) |-> MakeLayer(shapes[i])]
  /\ layerVersion' = layerVersion + 1
  /\ assignedSinceRender' = TRUE
  /\ ret' = [op |-> "layers", url |-> "", task |-> NoTask, ok |-> TRUE]
  /\ UNCHANGED <<loaderVars, resourceVars,
                 autoDiscard, renderId, offlineLayerVersion,
                 imageSize, offscreenVars, writePixels, readPixels, ops,
                 viewVars, imageToCanvas>>

\* `compositor.imageSize = size`
setImageSize(size) ==
  /\ imageSize' = size
  /\ ret' = [op |-> "imageSize", url |-> "", task |-> NoTask, ok |-> TRUE]
  /\ UNCHANGED <<loaderVars, resourceVars,
                 autoDiscard, renderId, layers, layerVersion,
                 offlineLayerVersion, offscreenVars, writePixels, readPixels,
                 ops, assignedSinceRender,
                 viewVars, imageToCanvas>>

\* `compositor.autoDiscard = b`
setAutoDiscard(b) ==
  /\ autoDiscard' = b
  /\ ret' = [op |-> "autoDiscard", url |-> "", task |-> NoTask, ok |-> b]
  /\ UNCHANGED <<loaderVars, resourceVars,
                 renderId, layers, layerVersion,
                 offlineLayerVersion, imageSize, offscreenVars, writePixels,
                 readPixels, ops, assignedSinceRender,
                 viewVars, imageToCanvas>>

\* `compositor.zoomScale = z`, `compositor.panPosition = p`,
\* `compositor.imageFitMode = m`, and a resize of the canvas.
setZoomScale(z) ==
  /\ zoomScale' = z
  /\ ret' = [op |-> "zoomScale", url |-> "", task |-> NoTask, ok |-> TRUE]
  /\ UNCHANGED <<loaderVars, resourceVars,
                 autoDiscard, renderId, layers, layerVersion,
                 offlineLayerVersion, imageSize, offscreenVars, writePixels,
                 readPixels, ops, assignedSinceRender, imageFitMode,
                 panPosition, canvasFramebuffer, imageToCanvas>>

setPanPosition(p) ==
  /\ panPosition' = p
  /\ ret' = [op |-> "panPosition", url |-> "", task |-> NoTask, ok |-> TRUE]
  /\ UNCHANGED <<loaderVars, resourceVars,
                 autoDiscard, renderId, layers, layerVersion,
                 offlineLayerVersion, imageSize, offscreenVars, writePixels,
                 readPixels, ops, assignedSinceRender, imageFitMode,
                 zoomScale, canvasFramebuffer, imageToCanvas>>

setImageFitMode(m) ==
  /\ imageFitMode' = m
  /\ ret' = [op |-> "imageFitMode", url |-> "", task |-> NoTask, ok |-> TRUE]
  /\ UNCHANGED <<loaderVars, resourceVars,
                 autoDiscard, renderId, layers, layerVersion,
                 offlineLayerVersion, imageSize, offscreenVars, writePixels,
                 readPixels, ops, assignedSinceRender, zoomScale,
                 panPosition, canvasFramebuffer, imageToCanvas>>

resizeCanvas(c) ==
  /\ canvasFramebuffer' = c
  /\ ret' = [op |-> "canvas", url |-> "", task |-> NoTask, ok |-> TRUE]
  /\ UNCHANGED <<loaderVars, resourceVars,
                 autoDiscard, renderId, layers, layerVersion,
                 offlineLayerVersion, imageSize, offscreenVars, writePixels,
                 readPixels, ops, assignedSinceRender, imageFitMode,
                 zoomScale, panPosition, imageToCanvas>>

\* ------------------------------------------------------------ TexImage2D

\* The numbers of images a client passes, the texture targets, and the sizes
\* of the images of one texture.
ImageCounts == {0, 1, 5, 6, 7, 12}
TextureTargets == {"Texture2D", "TextureCubeMap"}
TextureSizes == {<<256, 128>>, <<200, 100>>, <<1, 1>>}

\* loadImages(images) for n images: whether it throws "Unsupported number of
\* images", and how many images it hands to loadImage.
loadImages(n, target) ==
  IF n = 1 THEN [threw |-> FALSE, loaded |-> 1]
  ELSE IF target = "TextureCubeMap"
    THEN [threw |-> FALSE, loaded |-> 6 * (n \div 6)]
    ELSE [threw |-> TRUE, loaded |-> 0]

\* new TexImage2D(context, images, ..., target, texParameters): the object, or
\* none when loadImages throws.  `size` is set by the images that are loaded.
\* (disposeCalls is history: the dispose() calls made on the object.)
NewTexImage2D(n, target, size, generateMipmaps) ==
  IF loadImages(n, target).threw THEN NoObject
  ELSE [exists |-> TRUE, target |-> target, images |-> n,
        size |-> IF loadImages(n, target).loaded = 0 THEN <<0, 0>> ELSE size,
        generateMipmaps |-> generateMipmaps, disposed |-> FALSE,
        deleteTexture |-> 0, disposeResource |-> 0, disposeCalls |-> 0]

\* Math.floor(Math.log2(n)); log2(0) is -Infinity.
\* (LevelCount: the number of levels down to 1 x 1.)
RECURSIVE LevelCount(_)
LevelCount(n) == IF n < 2 THEN 1 ELSE 1 + LevelCount(n \div 2)

RECURSIVE FloorLog2(_)
FloorLog2(n) ==
  IF n = 0 THEN "-Infinity"
  ELSE IF n < 2 THEN 0 ELSE 1 + FloorLog2(n \div 2)

Max(a, b) == IF a >= b THEN a ELSE b

\* get mipCount()
mipCount(t) ==
  IF ~t.generateMipmaps THEN 1 ELSE FloorLog2(Max(t.size[1], t.size[2]))

\* TexImage2D.dispose()
\* (TexImage2D_disposeUnguarded: the texture is deleted at every call.)
TexImage2D_disposeUnguarded(t) ==
  [t EXCEPT !.deleteTexture = @ + 1, !.disposeResource = @ + 1,
            !.disposed = TRUE, !.disposeCalls = @ + 1]

TexImage2D_dispose(t) ==
  IF ~t.disposed
    THEN [t EXCEPT !.deleteTexture = @ + 1, !.disposeResource = @ + 1,
                   !.disposed = TRUE, !.disposeCalls = @ + 1]
    ELSE [t EXCEPT !.disposeCalls = @ + 1]

newTexImage2D(n, target, size, generateMipmaps) ==
  /\ ~texImage2D.exists
  /\ texImage2D' = NewTexImage2D(n, target, size, generateMipmaps)
  /\ ret' = [op |-> "newTexImage2D", url |-> "", task |-> NoTask,
             ok |-> ~loadImages(n, target).threw,
             value |-> [images |-> n, target |-> target,
                        loaded |-> loadImages(n, target).loaded]]
  /\ UNCHANGED <<loaderVars, autoDiscard, renderId, layers, layerVersion,
                 offlineLayerVersion, imageSize, offscreenVars, writePixels,
                 readPixels, ops, assignedSinceRender, viewVars, imageToCanvas,
                 contextFramebuffer,
                 layerImage, framebuffer>>

\* texImage2D.generateMipmaps()
generateMipmaps ==
  /\ texImage2D.exists
  /\ texImage2D' = [texImage2D EXCEPT !.generateMipmaps = TRUE]
  /\ ret' = [op |-> "generateMipmaps", url |-> "", task |-> NoTask, ok |-> TRUE]
  /\ UNCHANGED <<loaderVars, autoDiscard, renderId, layers, layerVersion,
                 offlineLayerVersion, imageSize, offscreenVars, writePixels,
                 readPixels, ops, assignedSinceRender, viewVars, imageToCanvas,
                 contextFramebuffer,
                 layerImage, framebuffer>>

\* texImage2D.mipCount
readMipCount ==
  /\ texImage2D.exists
  /\ ret' = [op |-> "mipCount", url |-> "", task |-> NoTask, ok |-> TRUE,
             value |-> mipCount(texImage2D)]
  /\ UNCHANGED <<loaderVars, renderVars>>

\* texImage2D.dispose()
disposeTexImage2D ==
  /\ texImage2D.exists
  /\ texImage2D.disposeCalls < MaxDisposes
  /\ texImage2D' = TexImage2D_dispose(texImage2D)
  /\ ret' = [op |-> "disposeTexImage2D", url |-> "", task |-> NoTask, ok |-> TRUE]
  /\ UNCHANGED <<loaderVars, autoDiscard, renderId, layers, layerVersion,
                 offlineLayerVersion, imageSize, offscreenVars, writePixels,
                 readPixels, ops, assignedSinceRender, viewVars, imageToCanvas,
                 contextFramebuffer,
                 layerImage, framebuffer>>

\* -------------------------------------------- LayerImage and Framebuffer

\* The images a LayerImage is made of: releaseImage closes an ImageBitmap and
\* does nothing to an HTMLImageElement.
ImageKinds == {"ImageBitmap", "HTMLImageElement"}

\* createTexture(ctx, url, image): a LayerImage with a texture of its own.
\* (releaseImage and close count the calls made; disposeCalls is history.)
createTexture(kind) ==
  [exists |-> TRUE, disposed |-> FALSE, image |-> kind,
   texImage2D |-> NewTexImage2D(1, "Texture2D", <<256, 128>>, FALSE),
   releaseImage |-> 0, close |-> 0, disposeCalls |-> 0]

\* LayerImage.dispose(), with the calls it makes.
LayerImage_dispose(li) ==
  IF ~li.disposed
    THEN [li EXCEPT !.texImage2D = TexImage2D_dispose(@),
                    !.releaseImage = @ + 1,
                    !.close = IF li.image = "ImageBitmap" THEN @ + 1 ELSE @,
                    !.image = "undefined",
                    !.disposed = TRUE,
                    !.disposeCalls = @ + 1]
    ELSE [li EXCEPT !.disposeCalls = @ + 1]

\* new Framebuffer(context, attachments) and Framebuffer.dispose()
NewFramebuffer ==
  [exists |-> TRUE, disposed |-> FALSE, deleteFramebuffer |-> 0,
   disposeCalls |-> 0]

Framebuffer_dispose(f) ==
  IF ~f.disposed
    THEN [f EXCEPT !.deleteFramebuffer = @ + 1, !.disposed = TRUE,
                   !.disposeCalls = @ + 1]
    ELSE [f EXCEPT !.disposeCalls = @ + 1]

newLayerImage(kind) ==
  /\ ~layerImage.exists
  /\ layerImage' = createTexture(kind)
  /\ ret' = [op |-> "createTexture", url |-> "", task |-> NoTask, ok |-> TRUE]
  /\ UNCHANGED <<loaderVars, autoDiscard, renderId, layers, layerVersion,
                 offlineLayerVersion, imageSize, offscreenVars, writePixels,
                 readPixels, ops, assignedSinceRender, viewVars, imageToCanvas,
                 contextFramebuffer,
                 texImage2D, framebuffer>>

\* layerImage.dispose()
disposeLayerImage ==
  /\ layerImage.exists
  /\ layerImage.disposeCalls < MaxDisposes
  /\ layerImage' = LayerImage_dispose(layerImage)
  /\ ret' = [op |-> "disposeLayerImage", url |-> "", task |-> NoTask, ok |-> TRUE]
  /\ UNCHANGED <<loaderVars, autoDiscard, renderId, layers, layerVersion,
                 offlineLayerVersion, imageSize, offscreenVars, writePixels,
                 readPixels, ops, assignedSinceRender, viewVars, imageToCanvas,
                 contextFramebuffer,
                 texImage2D, framebuffer>>

\* layerImage.texImage2D.dispose(): the texture is a public field.
disposeLayerImageTexture ==
  /\ layerImage.exists
  /\ layerImage.texImage2D.disposeCalls < MaxDisposes
  /\ layerImage' = [layerImage EXCEPT !.texImage2D = TexImage2D_dispose(@)]
  /\ ret' = [op |-> "disposeTexture", url |-> "", task |-> NoTask, ok |-> TRUE]
  /\ UNCHANGED <<loaderVars, autoDiscard, renderId, layers, layerVersion,
                 offlineLayerVersion, imageSize, offscreenVars, writePixels,
                 readPixels, ops, assignedSinceRender, viewVars, imageToCanvas,
                 contextFramebuffer,
                 texImage2D, framebuffer>>

newFramebuffer ==
  /\ ~framebuffer.exists
  /\ framebuffer' = NewFramebuffer
  /\ ret' = [op |-> "newFramebuffer", url |-> "", task |-> NoTask, ok |-> TRUE]
  /\ UNCHANGED <<loaderVars, autoDiscard, renderId, layers, layerVersion,
                 offlineLayerVersion, imageSize, offscreenVars, writePixels,
                 readPixels, ops, assignedSinceRender, viewVars, imageToCanvas,
                 contextFramebuffer,
                 texImage2D, layerImage>>

\* framebuffer.dispose()
disposeFramebuffer ==
  /\ framebuffer.exists
  /\ framebuffer.disposeCalls < MaxDisposes
  /\ framebuffer' = Framebuffer_dispose(framebuffer)
  /\ ret' = [op |-> "disposeFramebuffer", url |-> "", task |-> NoTask, ok |-> TRUE]
  /\ UNCHANGED <<loaderVars, autoDiscard, renderId, layers, layerVersion,
                 offlineLayerVersion, imageSize, offscreenVars, writePixels,
                 readPixels, ops, assignedSinceRender, viewVars, imageToCanvas,
                 contextFramebuffer,
                 texImage2D, layerImage>>

\* -------------------------------------------------- Framebuffer.readPixels

\* The framebuffers readPixels is called on: whether an attachment is at
\* Color0, the pixel format of its texture, whether checkFramebufferStatus
\* reports FRAMEBUFFER_COMPLETE when it is bound, and the byte length of its
\* pixels (size of the data type x components x width x height).
ReadableFramebuffers ==
  [color0 : BOOLEAN, pixelFormat : {"RGBA", "RGB"}, complete : BOOLEAN,
   pixelByteLength : {16}]

\* The byte lengths of the pixelBuffer a caller passes.
PixelBufferLengths == {0, 15, 16, 64}

\* `finally { this.context.framebuffer = oldFramebuffer; }`
\* (KeepBinding: the binding is left as it is.)
KeepBinding(oldFramebuffer, current) == current
RestoreBinding(oldFramebuffer, current) == oldFramebuffer

\* fb.readPixels(pixelBuffer) with `bound` the framebuffer bound at the call:
\* the error thrown ("" for none), the gl.readPixels calls issued, and the
\* framebuffer bound when the call is left.
Framebuffer_readPixels(fb, byteLength, bound) ==
  IF ~fb.color0
    THEN [error |-> "can not find Color0 attachment", glReadPixels |-> 0,
          bound |-> bound]
  ELSE IF fb.pixelFormat # "RGBA"
    THEN [error |-> "can not read non-RGBA color0 attachment",
          glReadPixels |-> 0, bound |-> bound]
  ELSE IF ~fb.complete
    THEN [error |-> "can not read non-complete Framebuffer",
          glReadPixels |-> 0, bound |-> RestoreBinding(bound, fb)]
  ELSE IF byteLength < fb.pixelByteLength
    THEN [error |-> "pixelBuffer too small", glReadPixels |-> 0,
          bound |-> RestoreBinding(bound, fb)]
  ELSE [error |-> "", glReadPixels |-> 1, bound |-> RestoreBinding(bound, fb)]

\* `context.framebuffer = f`, by any code that draws.
bindFramebuffer(f) ==
  /\ contextFramebuffer' = f
  /\ ret' = [op |-> "bindFramebuffer", url |-> "", task |-> NoTask, ok |-> TRUE]
  /\ UNCHANGED <<loaderVars, autoDiscard, renderId, layers, layerVersion,
                 offlineLayerVersion, imageSize, offscreenVars, writePixels,
                 readPixels, ops, assignedSinceRender, viewVars, imageToCanvas,
                 texImage2D, layerImage, framebuffer>>

readPixelsCall(fb, byteLength) ==
  LET r == Framebuffer_readPixels(fb, byteLength, contextFramebuffer) IN
  /\ contextFramebuffer' = r.bound
  /\ ret' = [op |-> "readPixels", url |-> "", task |-> NoTask,
             ok |-> r.error = "",
             value |-> [framebuffer |-> fb, byteLength |-> byteLength,
                        error |-> r.error, glReadPixels |-> r.glReadPixels,
                        oldFramebuffer |-> contextFramebuffer]]
  /\ UNCHANGED <<loaderVars, autoDiscard, renderId, layers, layerVersion,
                 offlineLayerVersion, imageSize, offscreenVars, writePixels,
                 readPixels, ops, assignedSinceRender, viewVars, imageToCanvas,
                 texImage2D, layerImage, framebuffer>>

\* -------------------------------------------------------- updateOffscreen

\* ceilPow2 of math/Functions: the size rounded up to the next power of two
\* (an empty extent stays empty).
RECURSIVE Pow2AtLeast(_, _)
Pow2AtLeast(n, p) == IF p >= n THEN p ELSE Pow2AtLeast(n, 2 * p)
ceilPow2(n) == IF n <= 0 THEN 0 ELSE Pow2AtLeast(n, 1)

RoundedSize == <<ceilPow2(imageSize[1]), ceilPow2(imageSize[2])>>

\* The condition under which updateOffscreen reallocates.
NeedsRealloc ==
  \/ offscreenWriteFramebuffer = 0
  \/ offscreenReadFramebuffer = 0
  \/ offscreenSize # RoundedSize

\* Framebuffer.dispose() / TexImage2D.dispose() of object o, when there is one.
\* (KeepObject: the previous object is dropped without being disposed.)
KeepObject(objects, kind, gen) == objects
DisposeObject(objects, kind, gen) ==
  IF gen = 0 THEN objects
  ELSE [o \in DOMAIN objects |->
          IF o = <<kind, gen>> THEN "disposed" ELSE objects[o]]

Allocations == Cardinality({o \in DOMAIN gpuObjects : o[1] = "writeFramebuffer"})

\* updateOffscreen(): the fields after the call.
updateOffscreen ==
  IF NeedsRealloc
    THEN LET g == Allocations + 1
             d1 == DisposeObject(gpuObjects, "writeFramebuffer", offscreenWriteFramebuffer)
             d2 == DisposeObject(d1, "writeColor", offscreenWriteColorAttachment)
             d3 == DisposeObject(d2, "readFramebuffer", offscreenReadFramebuffer)
             d4 == DisposeObject(d3, "readColor", offscreenReadColorAttachment)
             fresh == [o \in {<<"writeFramebuffer", g>>, <<"writeColor", g>>,
                              <<"readFramebuffer", g>>, <<"readColor", g>>} |-> "live"]
         IN [size |-> RoundedSize, writeFramebuffer |-> g, writeColor |-> g,
             readFramebuffer |-> g, readColor |-> g, objects |-> fresh @@ d4,
             write |-> Blank, read |-> Blank]
    ELSE [size |-> offscreenSize,
          writeFramebuffer |-> offscreenWriteFramebuffer,
          writeColor |-> offscreenWriteColorAttachment,
          readFramebuffer |-> offscreenReadFramebuffer,
          readColor |-> offscreenReadColorAttachment,
          objects |-> gpuObjects, write |-> writePixels, read |-> readPixels]

\* ---------------------------------------------- renderLayersToFramebuffer

\* One GL operation: a clear, a draw or a mipmap generation, the target it
\* writes, the layer it is for, the textures its uniforms bind, and (for a
\* draw) what the read and the write attachment held when it was issued.
GlOp(op, kind, target, layer, samplers, dst, acc) ==
  [op |-> op, kind |-> kind, target |-> target, layer |-> layer,
   samplers |-> samplers, dst |-> dst, acc |-> acc]

\* viewToImageUv = makeMatrix3FromViewToLayerUv(offscreenSize, undefined, true),
\* the texture coordinate at which a draw samples a target for region p of the
\* view: the region itself.
viewToImageUv(p) == p

\* `if (!layer.isTriviallyBlended)`
\* (CopyAlways: every layer is copied for.)
CopyAlways(layer) == TRUE
NeedsCopy(layer) == ~layer.isTriviallyBlended

\* The copy draw: the quad of the layer, drawn into the read framebuffer with
\* layerMap = the write attachment, blendMode 0 and copySourceBlendState: the
\* regions the quad covers receive what the write attachment holds there.
\* (CopyNothing: the copy draw samples the read attachment itself.)
CopyNothing(st, layer) == st.read
CopyResult(st, layer) ==
  [p \in Cells |->
     IF p \in layer.rect THEN st.write[viewToImageUv(p)] ELSE st.read[p]]

\* (CopyDrawKeepingImageMap: the copy draw does not set imageMap.)
CopyDrawKeepingImageMap(st, k, off) ==
  [st EXCEPT
     !.read = CopyResult(st, layers[k]),
     !.ops = Append(@, GlOp("draw", "copy", "read", k,
                            {<<"layerMap", <<"writeColor", off.writeColor>>>>},
                            st.read, st.write))]

CopyDraw(st, k, off) ==
  LET layer == layers[k] IN
  [st EXCEPT
     !.read = CopyResult(st, layer),
     !.ops = Append(@, GlOp("draw", "copy", "read", k,
                            {<<"imageMap", <<"writeColor", off.writeColor>>>>,
                             <<"layerMap", <<"writeColor", off.writeColor>>>>},
                            st.read, st.write))]

\* The blend draw: the quad of the layer, drawn into the write framebuffer
\* with imageMap = the read attachment and layerMap = the layer's texture.  A
\* trivial blend mode (blendMode 0) is blended by the blend state onto what the
\* write attachment holds; any other reads the destination from imageMap in
\* the fragment shader (`if( blendMode != 0 )`) and replaces the pixel.
BlendResult(st, layer, k) ==
  [p \in Cells |->
     IF p \in layer.rect
       THEN Append(IF layer.isTriviallyBlended THEN st.write[p]
                   ELSE st.read[viewToImageUv(p)], k)
       ELSE st.write[p]]

BlendDraw(st, k, off) ==
  LET layer == layers[k]
      maskUniforms == IF layer.mask # NoMask
                        THEN {<<"maskMap", <<"layer", layer.mask.texImage2D>>>>}
                        ELSE {}
  IN
  [st EXCEPT
     !.write = BlendResult(st, layer, k),
     !.ops = Append(@, GlOp("draw", "blend", "write", k,
                            {<<"imageMap", <<"readColor", off.readColor>>>>,
                             <<"layerMap", <<"layer", layer.texImage2D>>>>}
                              \cup maskUniforms,
                            st.read, st.write))]

\* `layerImage.renderId = this.renderId` for the layer's and the mask's image.
MarkUsed(images, layer, rid) ==
  LET used == {layerImageCache[layer.url]} \cup
              (IF layer.mask # NoMask THEN {layerImageCache[layer.mask.url]} ELSE {})
  IN [i \in DOMAIN images |->
        IF i \in used THEN [images[i] EXCEPT !.renderId = rid] ELSE images[i]]

\* The body of `this.#layers.forEach(...)` for the layer at position k.
LayerStep(st, k, off, rid) ==
  LET layer == layers[k]
      marked == [st EXCEPT !.images = MarkUsed(st.images, layer, rid)]
      copied == IF NeedsCopy(layer) THEN CopyDraw(marked, k, off) ELSE marked
  IN BlendDraw(copied, k, off)

\* (ForEachLayerBackwards: the stack is walked from its top to its bottom.)
RECURSIVE ForEachLayerBackwards(_, _, _, _)
ForEachLayerBackwards(st, k, off, rid) ==
  IF k > Len(layers) THEN st
  ELSE LayerStep(ForEachLayerBackwards(st, k + 1, off, rid), k, off, rid)

RECURSIVE ForEachLayer(_, _, _, _)
ForEachLayer(st, k, off, rid) ==
  IF k > Len(layers) THEN st
  ELSE ForEachLayer(LayerStep(st, k, off, rid), k + 1, off, rid)

\* `if (this.#offlineLayerVersion >= this.#layerVersion) return;`
\* (UpToDateNever: the version check is left out.  UpToDateAlways: it always
\* returns.)
UpToDateNever == FALSE
UpToDateAlways == TRUE
UpToDate == offlineLayerVersion >= layerVersion

\* renderLayersToFramebuffer() after updateOffscreen() gave `off`: the targets,
\* the LayerImages, the operations issued and the version last composited.
\* (RenderLayersWithoutClear: the recomposition draws over what the targets
\* hold.)
RenderLayersWithoutClear(off, rid) ==
  IF UpToDate \/ off.writeFramebuffer = 0 \/ off.readFramebuffer = 0
    THEN [write |-> off.write, read |-> off.read, ops |-> <<>>,
          images |-> layerImages,
          version |-> IF UpToDate THEN offlineLayerVersion ELSE layerVersion]
    ELSE LET drawn == ForEachLayer([write |-> off.write, read |-> off.read,
                                    ops |-> <<>>, images |-> layerImages,
                                    version |-> layerVersion], 1, off, rid)
         IN [drawn EXCEPT
               !.ops = Append(@, GlOp("mipmap", "mipmap", "write", 0, {},
                                      drawn.read, drawn.write))]

\* (RenderLayersWithoutMipmaps: the recomposition ends with the last draw.)
RenderLayersWithoutMipmaps(off, rid) ==
  IF UpToDate \/ off.writeFramebuffer = 0 \/ off.readFramebuffer = 0
    THEN [write |-> off.write, read |-> off.read, ops |-> <<>>,
          images |-> layerImages,
          version |-> IF UpToDate THEN offlineLayerVersion ELSE layerVersion]
    ELSE ForEachLayer(
           [write |-> Blank, read |-> Blank,
            ops |-> <<GlOp("clear", "clear", "write", 0, {}, Blank, Blank),
                      GlOp("clear", "clear", "read", 0, {}, Blank, Blank)>>,
            images |-> layerImages, version |-> layerVersion], 1, off, rid)

renderLayersToFramebuffer(off, rid) ==
  IF UpToDate \/ off.writeFramebuffer = 0 \/ off.readFramebuffer = 0
    THEN [write |-> off.write, read |-> off.read, ops |-> <<>>,
          images |-> layerImages,
          version |-> IF UpToDate THEN offlineLayerVersion ELSE layerVersion]
    ELSE LET cleared == [write |-> Blank, read |-> Blank,
                         ops |-> <<GlOp("clear", "clear", "write", 0, {}, Blank, Blank),
                                   GlOp("clear", "clear", "read", 0, {}, Blank, Blank)>>,
                         images |-> layerImages, version |-> layerVersion]
             drawn == ForEachLayer(cleared, 1, off, rid)
         IN [drawn EXCEPT
               !.ops = Append(@, GlOp("mipmap", "mipmap", "write", 0, {},
                                      drawn.read, drawn.write))]

\* ----------------------------------------------------------------- render

\* The presentation: the canvas is cleared and the quad drawn on it with
\* layerMap = the write attachment.
Presentation(st, off) ==
  <<GlOp("clear", "clear", "canvas", 0, {}, st.read, st.write),
    GlOp("draw", "present", "canvas", 0,
         {<<"layerMap", <<"writeColor", off.writeColor>>>>}, st.read, st.write)>>

\* imageToCanvasScale: the canvas extent over the image extent, on the axis
\* the fit mode names.
imageToCanvasScale(fit, canvasSize, size) ==
  IF fit = "FitWidth" THEN Rat(canvasSize[1], size[1])
                      ELSE Rat(canvasSize[2], size[2])

\* `Math.sign(x) * Math.min(Math.abs(x), extent * 0.5)`
\* (ClampPanNot: the offset is taken as it is.)
ClampPanNot(x, extent) == x
ClampPan(x, extent) == RMul(RSign(x), RMin(RAbs(x), RMul(Num(extent), Half)))

\* The pan of the branch `if (this.zoomScale > 1.0)`: the pointer position in
\* image space, its offset from the middle of the canvas in image space, the
\* offset clamped to the image, and the clamped offset back in canvas space.
PanOffsets(fit, pan, canvas, size) ==
  LET scale == imageToCanvasScale(fit, canvas.size, size)
      imagePanPosition == VScale(VScale(pan, RInv(scale)), Num(canvas.devicePixelRatio))
      imageCanvasSize == VScale(VNum(canvas.size), RInv(scale))
      imagePanOffset == VSub(imagePanPosition, VScale(imageCanvasSize, Half))
      clamped == <<ClampPan(imagePanOffset[1], size[1]),
                   ClampPan(imagePanOffset[2], size[2])>>
  IN [imagePanOffset |-> imagePanOffset, clamped |-> clamped,
      canvasPanOffset |-> VScale(clamped, scale)]

\* What the branch adds to canvasImageCenter: centeredCanvasPanOffset when
\* zoomScale > 1, nothing otherwise.
\* (PanAsShift: the canvas pan offset is added whatever the zoom.)
PanAsShift(zoom, canvasPanOffset) == canvasPanOffset
CenterShift(zoom, canvasPanOffset) ==
  IF RLess(Num(1), zoom)
    THEN VScale(canvasPanOffset, RSub(Num(1), RInv(zoom)))
    ELSE <<Num(0), Num(0)>>

\* The arguments render() gives makeMatrix4OrthographicSimple, with the pan
\* offsets they were computed from.  With no image extent on the fitted axis
\* the scale is a division by zero and no number of the view is finite.
View(fit, zoom, pan, canvas, size) ==
  IF (IF fit = "FitWidth" THEN size[1] ELSE size[2]) = 0
    THEN NotFinite
    ELSE LET scale == imageToCanvasScale(fit, canvas.size, size)
             canvasImageSize == VScale(VNum(size), scale)
             zoomed == RLess(Num(1), zoom)
             offsets == PanOffsets(fit, pan, canvas, size)
         IN [finite |-> TRUE,
             height |-> canvas.size[2],
             zoomScale |-> zoom,
             imagePanOffset |-> IF zoomed THEN offsets.imagePanOffset ELSE <<>>,
             clamped |-> IF zoomed THEN offsets.clamped ELSE <<>>,
             canvasImageCenter |->
               VAdd(VScale(canvasImageSize, Half),
                    CenterShift(zoom, offsets.canvasPanOffset))]

\* `if (this.autoDiscard)`: the urls whose resident image was not used by this
\* render and that discardTexImage2D acts on.
\* (AutoDiscardedAll: every resident image is taken, used or not.)
AutoDiscardedAll(images, rid) ==
  IF autoDiscard THEN {u \in Urls : layerImageCache[u] # NoImage} ELSE {}

AutoDiscarded(images, rid) ==
  IF autoDiscard
    THEN {u \in Urls : /\ layerImageCache[u] # NoImage
                       /\ images[layerImageCache[u]].renderId < rid
                       /\ DiscardApplies(u)}
    ELSE {}

\* render()
render ==
  LET rid == renderId + 1
      off == updateOffscreen
      st == renderLayersToFramebuffer(off, rid)
      S == IF off.writeColor = 0 THEN {} ELSE AutoDiscarded(st.images, rid)
  IN
  /\ renderId < MaxRenders
  /\ NeedsRealloc => Allocations < MaxAllocs
  /\ renderId' = rid
  /\ offscreenSize' = off.size
  /\ offscreenWriteFramebuffer' = off.writeFramebuffer
  /\ offscreenWriteColorAttachment' = off.writeColor
  /\ offscreenReadFramebuffer' = off.readFramebuffer
  /\ offscreenReadColorAttachment' = off.readColor
  /\ gpuObjects' = off.objects
  /\ offlineLayerVersion' = st.version
  /\ writePixels' = st.write
  /\ readPixels' = st.read
  /\ ops' = IF off.writeColor = 0 THEN st.ops ELSE st.ops \o Presentation(st, off)
  /\ desiredImages' = desiredImages \ S
  /\ layerImages' = ImagesAfterDiscard(st.images, S)
  /\ layerImageCache' = ResidentAfterDiscard(S)
  /\ texImage2DPromiseCache' = PromisesAfterDiscard(S)
  /\ tasks' = TasksAfterDiscard(S)
  /\ group' = [u \in Urls |-> IF u \in S THEN NoGroup ELSE group[u]]
  /\ loadedSinceDiscard' = loadedSinceDiscard \ S
  /\ assignedSinceRender' = FALSE
  /\ ret' = [op |-> "render", url |-> "", task |-> NoTask, ok |-> TRUE]
  /\ imageToCanvas' =
       IF off.writeColor = 0 THEN imageToCanvas
       ELSE View(imageFitMode, zoomScale, panPosition, canvasFramebuffer, imageSize)
  /\ UNCHANGED <<autoDiscard, layers, layerVersion, imageSize, viewVars,
                 resourceVars>>

\* ------------------------------------------------------- specifications

\* The texture cache and its loader, under every interleaving of the calls a
\* client makes and the completions of the fetches; render() runs with the
\* initial, empty layer stack and prunes the cache when autoDiscard is set.
NextLoader ==
  \/ \E u \in Urls : loadTexImage2D(u)
  \/ \E u \in Urls : loadTexImage2DWithImage(u)
  \/ \E u \in Urls : discardTexImage2D(u)
  \/ \E t \in TaskIds : fetchCompletes(t)
  \/ \E t \in TaskIds : fetchFails(t)
  \/ \E b \in BOOLEAN : setAutoDiscard(b)
  \/ render

SpecLoader == Init /\ [][NextLoader]_vars

\* The render pipeline, under every sequence of layer-stack assignments, image
\* size changes and render() calls.
NextRender ==
  \/ \E shapes \in LayerStacks : setLayers(shapes)
  \/ \E size \in ImageSizes : setImageSize(size)
  \/ render

SpecRender == Init /\ [][NextRender]_vars

\* Readback: framebuffers are bound and read in any order.
NextReadPixels ==
  \/ \E f \in ReadableFramebuffers \cup {DefaultFramebuffer} : bindFramebuffer(f)
  \/ \E fb \in ReadableFramebuffers, n \in PixelBufferLengths :
        readPixelsCall(fb, n)

SpecReadPixels == Init /\ [][NextReadPixels]_vars

\* The loader alone, with the promise of fetchImage settling at some time: the
\* browser resolves or rejects every fetch, and the event loop then runs the
\* continuation of the task that awaits it.
FetchSettles(t) == t \in TaskIds /\ (fetchCompletes(t) \/ fetchFails(t))

NextLoading ==
  \/ \E u \in Urls : loadTexImage2D(u)
  \/ \E u \in Urls : discardTexImage2D(u)
  \/ \E t \in TaskIds : fetchCompletes(t)
  \/ \E t \in TaskIds : fetchFails(t)

SpecLoaderLive ==
  /\ Init
  /\ [][NextLoading]_vars
  /\ \A t \in 1..MaxTasks : WF_vars(FetchSettles(t))

\* The cache under render(): images are supplied decoded, so that they are
\* resident at once, layer stacks that name them are assigned, autoDiscard is
\* switched, and render() marks and prunes.  The stacks assigned here have one
\* layer at most: with or without a mask, naming one url or both.
ShortStacks == {shapes \in LayerStacks : Len(shapes) <= 1}

NextCache ==
  \/ \E u \in Urls : loadTexImage2DWithImage(u)
  \/ \E shapes \in ShortStacks : setLayers(shapes)
  \/ \E b \in BOOLEAN : setAutoDiscard(b)
  \/ render

SpecCache == Init /\ [][NextCache]_vars

\* The layer stack against the cache: images are loaded and discarded, by the
\* client or by autoDiscard, while layers that were built with their textures
\* are assigned and rendered.
NextStack ==
  \/ \E u \in Urls : loadTexImage2DWithImage(u)
  \/ \E u \in Urls : discardTexImage2D(u)
  \/ \E shapes \in ShortStacks : setLayers(shapes)
  \/ \E b \in BOOLEAN : setAutoDiscard(b)
  \/ render

SpecStack == Init /\ [][NextStack]_vars

\* The view of render(): the image size, the fit mode, the zoom, the pan
\* position and the canvas change between render() calls.
NextView ==
  \/ \E size \in ViewImageSizes : setImageSize(size)
  \/ \E m \in ImageFitModes : setImageFitMode(m)
  \/ \E z \in ZoomScales : setZoomScale(z)
  \/ \E p \in PanPositions : setPanPosition(p)
  \/ \E c \in CanvasFramebuffers : resizeCanvas(c)
  \/ render

SpecView == Init /\ [][NextView]_vars

\* One TexImage2D: constructed from any number of images for either target,
\* asked for its mipCount, told to generate mipmaps, disposed.
NextTexImage2D ==
  \/ \E n \in ImageCounts, target \in TextureTargets, size \in TextureSizes,
        g \in BOOLEAN : newTexImage2D(n, target, size, g)
  \/ generateMipmaps
  \/ readMipCount
  \/ disposeTexImage2D

SpecTexImage2D == Init /\ [][NextTexImage2D]_vars

\* The disposable objects: a TexImage2D, a LayerImage with its texture and a
\* Framebuffer, each disposed any number of times in any order.
NextDispose ==
  \/ \E size \in TextureSizes : newTexImage2D(1, "Texture2D", size, FALSE)
  \/ disposeTexImage2D
  \/ \E kind \in ImageKinds : newLayerImage(kind)
  \/ disposeLayerImage
  \/ disposeLayerImageTexture
  \/ newFramebuffer
  \/ disposeFramebuffer

SpecDispose == Init /\ [][NextDispose]_vars

\* ------------------------------------------------------------- the claims

\* C1: the loadTexImage2D(url) calls of one burst (made while the task of the
\* first is pending, no discard in between) start exactly one fetch, and the
\* promises they return have the same outcome: the same texture once resolved.
C1_BurstSharesOneFetch ==
  \A u \in Urls :
    group[u].first # NoTask =>
      /\ group[u].fetches = 1
      /\ \A t \in group[u].joined :
           /\ tasks[t].status = tasks[group[u].first].status
           /\ tasks[t].result = tasks[group[u].first].result

\* A burst of two calls or more whose task resolved with a texture.
C1_Witness ==
  \E u \in Urls :
    /\ group[u].calls >= 2
    /\ tasks[group[u].first].status = "resolved"

\* C2 as stated: a task that saw discardTexImage2D(url) while it was pending
\* resolves null when its fetch completes, and url is then in neither cache.
C2_DiscardedTaskCancels ==
  [][\A t \in TaskIds :
       (Pending(t) /\ tasks[t].discarded
          /\ tasks'[t].status \in {"resolved", "cancelled"}) =>
         /\ tasks'[t].status = "cancelled"
         /\ layerImageCache'[tasks[t].url] = NoImage
         /\ texImage2DPromiseCache'[tasks[t].url] = NoTask]_vars

\* C3 as stated: at most one fetch is outstanding for any url.
C3_AtMostOneOutstandingFetch ==
  \A u \in Urls : Cardinality(OutstandingFetches(u)) <= 1

\* C4 as stated: texImage2DPromiseCache holds no entry of a settled task.
C4_NoSettledEntry ==
  \A u \in Urls :
    texImage2DPromiseCache[u] # NoTask => Pending(texImage2DPromiseCache[u])

\* C5: url has a LayerImage in layerImageCache exactly when a load task of url
\* completed while url was desired and discardTexImage2D(url) has not run since.
C5_ResidentIffLoadedSinceDiscard ==
  \A u \in Urls : layerImageCache[u] # NoImage <=> u \in loadedSinceDiscard

\* An image is resident while an image loaded earlier has been discarded.
C5_Witness ==
  /\ \E u \in Urls : layerImageCache[u] # NoImage
  /\ \E i \in ImageIds : layerImages[i].disposed

\* C6: discardTexImage2D(url) on a desired url returns true, leaves url in none
\* of desiredImages, layerImageCache, texImage2DPromiseCache, disposes the
\* LayerImage that was resident, and changes no entry of another url.
C6_DiscardRemovesEverywhere ==
  [][\A u \in Urls :
       (ret'.op = "discard" /\ ret'.url = u /\ u \in desiredImages) =>
         /\ ret'.ok
         /\ u \notin desiredImages'
         /\ layerImageCache'[u] = NoImage
         /\ texImage2DPromiseCache'[u] = NoTask
         /\ layerImageCache[u] # NoImage =>
              layerImages'[layerImageCache[u]].disposed
         /\ \A v \in Urls \ {u} :
              /\ v \in desiredImages' <=> v \in desiredImages
              /\ layerImageCache'[v] = layerImageCache[v]
              /\ texImage2DPromiseCache'[v] = texImage2DPromiseCache[v]
              /\ layerImageCache[v] # NoImage =>
                   layerImages'[layerImageCache[v]] = layerImages[layerImageCache[v]]]_vars

\* A discard returned true, disposed the image of its url, and the other url
\* is still resident.
C6_Witness ==
  /\ ret.op = "discard" /\ ret.ok
  /\ \E i \in ImageIds : layerImages[i].url = ret.url /\ layerImages[i].disposed
  /\ \E v \in Urls \ {ret.url} : layerImageCache[v] # NoImage

\* C7: discardTexImage2D(url) on a url that is not desired returns false and
\* changes none of desiredImages, layerImageCache, texImage2DPromiseCache and
\* the disposed flags; a discard right after a successful discard of the same
\* url returns false.
C7_DiscardOfUndesiredIsNoOp ==
  [][/\ \A u \in Urls :
          (ret'.op = "discard" /\ ret'.url = u /\ u \notin desiredImages) =>
            /\ ~ret'.ok
            /\ desiredImages' = desiredImages
            /\ layerImageCache' = layerImageCache
            /\ texImage2DPromiseCache' = texImage2DPromiseCache
            /\ \A i \in ImageIds : layerImages'[i].disposed = layerImages[i].disposed
     /\ (ret.op = "discard" /\ ret.ok /\ ret'.op = "discard" /\ ret'.url = ret.url)
          => ~ret'.ok]_vars

\* A discard returned false for a url whose image an earlier discard disposed,
\* while the other url is resident.
C7_Witness ==
  /\ ret.op = "discard" /\ ~ret.ok
  /\ \E i \in ImageIds : layerImages[i].url = ret.url /\ layerImages[i].disposed
  /\ \E v \in Urls \ {ret.url} : layerImageCache[v] # NoImage

\* The positions in a log of the operations on the offscreen targets.
OffscreenOps(log) == {i \in DOMAIN log : log[i].target \in {"write", "read"}}

OpsOfKind(log, kind) == {i \in DOMAIN log : log[i].kind = kind}

\* The log ends with the clear of the canvas and the presentation draw, and
\* nothing else touches the canvas.
Presents(log) ==
  /\ Len(log) >= 2
  /\ log[Len(log) - 1].op = "clear" /\ log[Len(log) - 1].target = "canvas"
  /\ log[Len(log)].kind = "present" /\ log[Len(log)].target = "canvas"
  /\ {i \in DOMAIN log : log[i].target = "canvas"} = {Len(log) - 1, Len(log)}

\* The log holds one recomposition of a stack of n layers: each target cleared
\* once, one blend draw per layer, one mipmap generation.
RecomposesOnce(log, n) ==
  /\ Cardinality({i \in OpsOfKind(log, "clear") : log[i].target = "write"}) = 1
  /\ Cardinality({i \in OpsOfKind(log, "clear") : log[i].target = "read"}) = 1
  /\ Cardinality(OpsOfKind(log, "blend")) = n
  /\ Cardinality(OpsOfKind(log, "mipmap")) = 1

\* C8: a render() with no assignment to `layers` since the previous render()
\* issues no operation on the offscreen targets and still clears the canvas and
\* draws the presentation; a render() after one or more assignments recomposes
\* exactly once.
C8_UnchangedStackSkipsRecomposition ==
  [][renderId' = renderId + 1 =>
       /\ Presents(ops')
       /\ (renderId >= 1 /\ ~assignedSinceRender) => OffscreenOps(ops') = {}
       /\ assignedSinceRender => RecomposesOnce(ops', Len(layers'))]_vars

\* The second render() or a later one, of a stack that is not empty, touched no
\* offscreen target and presented.
C8_Witness ==
  /\ ret.op = "render" /\ renderId >= 2 /\ Len(layers) > 0
  /\ OffscreenOps(ops) = {}
  /\ Presents(ops)

\* C9: in a recomposition every layer gets one blend draw into the write
\* target; a copy draw into the read target is issued for a layer exactly when
\* it is not trivially blended, and is then the operation right before the
\* blend draw of the same layer; a stack of trivially blended layers has none.
C9_CopyIffNotTriviallyBlended ==
  (ret.op = "render" /\ OpsOfKind(ops, "mipmap") # {}) =>
    /\ \A k \in 1..Len(layers) :
         LET copies == {i \in OpsOfKind(ops, "copy") : ops[i].layer = k}
             blends == {i \in OpsOfKind(ops, "blend") : ops[i].layer = k}
         IN /\ Cardinality(blends) = 1
            /\ copies # {} <=> ~layers[k].isTriviallyBlended
            /\ \A i \in copies : /\ ops[i].target = "read"
                                 /\ i + 1 \in blends
                                 /\ ops[i + 1].target = "write"
    /\ \A i \in OpsOfKind(ops, "copy") : ops[i].layer \in 1..Len(layers)
    /\ (\A k \in 1..Len(layers) : layers[k].isTriviallyBlended)
         => OpsOfKind(ops, "copy") = {}

\* A recomposition of a stack with a trivially blended layer and one that is
\* not: one copy draw was issued.
C9_Witness ==
  /\ ret.op = "render"
  /\ Cardinality(OpsOfKind(ops, "copy")) = 1
  /\ \E k \in 1..Len(layers) : layers[k].isTriviallyBlended
  /\ \E k \in 1..Len(layers) : ~layers[k].isTriviallyBlended

\* What the layers below position k have composited in region p.
Below(k, p) ==
  SelectSeq([j \in 1..(k - 1) |-> j], LAMBDA j : p \in layers[j].rect)

\* C10: when the blend draw of a layer that is not trivially blended is
\* issued, the read target holds in every region of the layer's rectangle what
\* the write target holds there, the composite of the layers below.
C10_ReadTargetIsFreshAtBlend ==
  ret.op = "render" =>
    \A i \in OpsOfKind(ops, "blend") :
      LET k == ops[i].layer IN
      ~layers[k].isTriviallyBlended =>
        \A p \in layers[k].rect :
          /\ ops[i].dst[p] = ops[i].acc[p]
          /\ ops[i].acc[p] = Below(k, p)

\* The second layer of a stack is not trivially blended and its blend draw
\* found the first layer's result in the read target.
C10_Witness ==
  /\ ret.op = "render"
  /\ \E i \in OpsOfKind(ops, "blend") :
       /\ ops[i].layer = 2
       /\ ~layers[2].isTriviallyBlended
       /\ \E p \in layers[2].rect : ops[i].dst[p] = <<1>>

\* C11: within one render() every operation of the recomposition is issued
\* before the presentation draw, and the blend draw of layer i is issued before
\* the copy draw and the blend draw of every layer j above it (i < j).
C11_RecompositionBeforePresentationInStackOrder ==
  ret.op = "render" =>
    /\ \A i \in OffscreenOps(ops) : \A j \in OpsOfKind(ops, "present") : i < j
    /\ \A i \in OpsOfKind(ops, "blend") :
         \A j \in OpsOfKind(ops, "blend") \cup OpsOfKind(ops, "copy") :
           ops[i].layer < ops[j].layer => i < j

\* A render() recomposed a stack of two layers, with a copy draw for the upper
\* one, and presented.
C11_Witness ==
  /\ ret.op = "render"
  /\ OpsOfKind(ops, "present") # {}
  /\ \E i \in OpsOfKind(ops, "blend") : ops[i].layer = 1
  /\ \E j \in OpsOfKind(ops, "copy") : ops[j].layer = 2

\* The four offscreen objects the compositor holds, and the objects of a kind
\* that are not disposed.
OffscreenObjects ==
  <<offscreenWriteFramebuffer, offscreenWriteColorAttachment,
    offscreenReadFramebuffer, offscreenReadColorAttachment>>

Undisposed(objects, kind) ==
  {o \in DOMAIN objects : o[1] = kind /\ objects[o] = "live"}

\* C12: a render() replaces the offscreen framebuffers and attachments only
\* when there were none or the rounded imageSize differs from offscreenSize,
\* and then leaves every previous one disposed; otherwise the same four objects
\* persist.  After every render() exactly one object of each of the four kinds
\* is not disposed: the one the compositor holds.
C12_ReallocatesOnlyOnSizeChange ==
  [][renderId' = renderId + 1 =>
       LET none == offscreenWriteFramebuffer = 0 \/ offscreenReadFramebuffer = 0
           rounded == <<ceilPow2(imageSize[1]), ceilPow2(imageSize[2])>>
           replaced == OffscreenObjects' # OffscreenObjects
       IN /\ replaced => (none \/ rounded # offscreenSize)
          /\ ~(none \/ rounded # offscreenSize) =>
               /\ ~replaced
               /\ gpuObjects' = gpuObjects
          /\ replaced =>
               \A o \in DOMAIN gpuObjects : gpuObjects'[o] = "disposed"
          /\ offscreenSize' = rounded
          /\ Undisposed(gpuObjects', "writeFramebuffer")
               = {<<"writeFramebuffer", offscreenWriteFramebuffer'>>}
          /\ Undisposed(gpuObjects', "writeColor")
               = {<<"writeColor", offscreenWriteColorAttachment'>>}
          /\ Undisposed(gpuObjects', "readFramebuffer")
               = {<<"readFramebuffer", offscreenReadFramebuffer'>>}
          /\ Undisposed(gpuObjects', "readColor")
               = {<<"readColor", offscreenReadColorAttachment'>>}]_vars

\* Three render() calls were made, one of them after a change of the rounded
\* size: the first targets are disposed, the second ones are held.
C12_Witness ==
  /\ ret.op = "render" /\ renderId = 3
  /\ offscreenWriteFramebuffer = 2
  /\ gpuObjects[<<"writeFramebuffer", 1>>] = "disposed"
  /\ gpuObjects[<<"readColor", 1>>] = "disposed"
  /\ gpuObjects[<<"readColor", 2>>] = "live"

\* The textures a sampler uniform of the program is bound to at the draw at
\* position i of a log: a uniform keeps the value the latest draw gave it.
Draws(log) == {i \in DOMAIN log : log[i].op = "draw"}

BoundTextures(log, i, name) ==
  LET setters == {j \in Draws(log) :
                    j <= i /\ \E s \in log[j].samplers : s[1] = name}
      last == CHOOSE j \in setters : \A j2 \in setters : j2 <= j
  IN IF setters = {} THEN {}
     ELSE {s[2] : s \in {x \in log[last].samplers : x[1] = name}}

\* The textures the uniforms of one draw name.
Sampled(op) == {s[2] : s \in op.samplers}

\* The color attachment of the framebuffer an operation writes (none for the
\* canvas).
WrittenAttachment(op) ==
  CASE op.target = "write" -> {<<"writeColor", offscreenWriteColorAttachment>>}
    [] op.target = "read"  -> {<<"readColor", offscreenReadColorAttachment>>}
    [] OTHER -> {}

\* C19: no draw of a render() has the color attachment of the framebuffer it
\* writes bound to a sampler; a copy draw writes the read target and samples
\* only the write attachment, a blend draw writes the write target and samples
\* only the read attachment and the layer's and the mask's texture, and the
\* presentation draw writes the canvas and samples the write attachment.
C19_NoDrawSamplesItsOwnTarget ==
  ret.op = "render" =>
    \A i \in Draws(ops) :
      LET writeColor == <<"writeColor", offscreenWriteColorAttachment>>
          readColor == <<"readColor", offscreenReadColorAttachment>>
      IN /\ \A name \in {"imageMap", "layerMap", "maskMap"} :
              WrittenAttachment(ops[i]) \cap BoundTextures(ops, i, name) = {}
         /\ WrittenAttachment(ops[i]) \cap Sampled(ops[i]) = {}
         /\ ops[i].kind = "copy" =>
              ops[i].target = "read" /\ Sampled(ops[i]) = {writeColor}
         /\ ops[i].kind = "blend" =>
              /\ ops[i].target = "write"
              /\ <<"imageMap", readColor>> \in ops[i].samplers
              /\ \A t \in Sampled(ops[i]) \ {readColor} : t[1] = "layer"
         /\ ops[i].kind = "present" =>
              ops[i].target = "canvas" /\ Sampled(ops[i]) = {writeColor}

\* A render() issued the copy draw of a second layer, after the blend draw of
\* a masked first layer had bound imageMap to the read attachment.
C19_Witness ==
  /\ ret.op = "render"
  /\ \E i \in OpsOfKind(ops, "copy") :
       /\ ops[i].layer = 2
       /\ \E j \in OpsOfKind(ops, "blend") :
            j < i /\ \E s \in ops[j].samplers : s[1] = "maskMap"
  /\ OpsOfKind(ops, "present") # {}

\* C20: a render() that recomposes (it clears the write target) generates the
\* mipmaps of the write attachment exactly once, after every copy and blend
\* draw and before the presentation draw, however many layers the stack has; a
\* render() that does not recompose generates none.
C20_MipmapsOncePerRecomposition ==
  ret.op = "render" =>
    LET recomposed == \E i \in OpsOfKind(ops, "clear") : ops[i].target = "write"
        mipmaps == OpsOfKind(ops, "mipmap")
    IN /\ recomposed => Cardinality(mipmaps) = 1
       /\ ~recomposed => mipmaps = {}
       /\ \A m \in mipmaps :
            /\ ops[m].target = "write"
            /\ \A i \in OpsOfKind(ops, "blend") \cup OpsOfKind(ops, "copy") : i < m
            /\ \A j \in OpsOfKind(ops, "present") : m < j
            /\ \A p \in Cells : ops[m].acc[p] = writePixels[p]

\* A render() recomposed an empty stack: no draw, one mipmap generation, then
\* the presentation.
C20_Witness ==
  /\ ret.op = "render" /\ Len(layers) = 0 /\ renderId >= 2
  /\ OpsOfKind(ops, "blend") = {}
  /\ Cardinality(OpsOfKind(ops, "mipmap")) = 1
  /\ OpsOfKind(ops, "present") # {}

\* C13: at the end of a render() with autoDiscard set, every image that was
\* resident and whose renderId is lower than the compositor's renderId is out
\* of layerImageCache and desiredImages and disposed, and every resident image
\* whose renderId equals it is kept; with autoDiscard off a render() removes
\* and disposes nothing.
C13_AutoDiscardPrunesUnused ==
  [][renderId' = renderId + 1 =>
       /\ \A u \in Urls :
            LET i == layerImageCache[u] IN
            (autoDiscard /\ i # NoImage) =>
              /\ layerImages'[i].renderId < renderId' =>
                   /\ layerImageCache'[u] = NoImage
                   /\ u \notin desiredImages'
                   /\ layerImages'[i].disposed
              /\ layerImages'[i].renderId = renderId' =>
                   /\ layerImageCache'[u] = i
                   /\ u \in desiredImages'
                   /\ ~layerImages'[i].disposed
       /\ ~autoDiscard =>
            /\ layerImageCache' = layerImageCache
            /\ desiredImages' = desiredImages
            /\ texImage2DPromiseCache' = texImage2DPromiseCache
            /\ \A i \in ImageIds :
                 layerImages'[i].disposed = layerImages[i].disposed]_vars

\* A render() with autoDiscard set kept the image its stack names and disposed
\* the other one.
C13_Witness ==
  /\ ret.op = "render" /\ autoDiscard
  /\ \E u \in Urls :
       /\ layerImageCache[u] # NoImage
       /\ layerImages[layerImageCache[u]].renderId = renderId
  /\ \E i \in ImageIds :
       layerImages[i].disposed /\ layerImages[i].renderId < renderId

\* C14: a render() with zoomScale > 1 and an image to fit clamps the pan
\* offset in image space to half the image in each axis (to 500 for an image of
\* 1000 x 1000), whatever the pan position, the canvas and the device pixel
\* ratio, and the clamped offset has the sign of the offset before clamping.
C14_PanOffsetClampedToHalfImage ==
  (ret.op = "render" /\ RLess(Num(1), zoomScale) /\ imageToCanvas.finite) =>
    \A axis \in {1, 2} :
      LET c == imageToCanvas.clamped[axis]
          x == imageToCanvas.imagePanOffset[axis]
      IN /\ 2 * Abs(c[1]) <= imageSize[axis] * c[2]
         /\ imageSize = <<1000, 1000>> => Abs(c[1]) <= 500 * c[2]
         /\ (c[1] > 0 <=> x[1] > 0) /\ (c[1] < 0 <=> x[1] < 0)

\* A zoomed render() of an image of 1000 x 1000 with a pointer far outside the
\* canvas: the offset was beyond -500 in x and is clamped to -500, and clamped
\* to 500 in y.
C14_Witness ==
  /\ ret.op = "render" /\ RLess(Num(1), zoomScale) /\ imageToCanvas.finite
  /\ imageSize = <<1000, 1000>>
  /\ RLess(imageToCanvas.imagePanOffset[1], Num(-500))
  /\ imageToCanvas.clamped = <<Num(-500), Num(500)>>

\* C15: a render() with zoomScale = 1 computes the viewport center that it
\* would compute with any other pan position, half the size of the image as
\* fitted on the canvas.
C15_PanIgnoredAtZoomOne ==
  (ret.op = "render" /\ zoomScale = Num(1) /\ imageToCanvas.finite) =>
    LET center == imageToCanvas.canvasImageCenter
        fitted == IF imageFitMode = "FitWidth" THEN 1 ELSE 2
    IN /\ \A p \in PanPositions :
            View(imageFitMode, zoomScale, p, canvasFramebuffer,
                 imageSize).canvasImageCenter = center
       /\ \A axis \in {1, 2} :
            2 * center[axis][1] * imageSize[fitted]
              = imageSize[axis] * canvasFramebuffer.size[fitted] * center[axis][2]

\* A render() at zoomScale 1 after an earlier one, with the pan position set
\* far outside the canvas.
C15_Witness ==
  /\ ret.op = "render" /\ renderId >= 2
  /\ zoomScale = Num(1) /\ imageToCanvas.finite
  /\ panPosition = <<Num(-300), Num(5000)>>

\* C16: mipCount of a texture with mipmap generation enabled is the floor of
\* the base-2 logarithm of its larger extent (8 for 256 x 128), and 1 with
\* mipmap generation not enabled.
C16_MipCountIsFloorLog2 ==
  ret.op = "mipCount" =>
    LET m == ret.value
        extent == IF texImage2D.size[1] >= texImage2D.size[2]
                    THEN texImage2D.size[1] ELSE texImage2D.size[2]
    IN /\ ~texImage2D.generateMipmaps => m = 1
       /\ (texImage2D.generateMipmaps /\ extent >= 1) =>
            /\ 2 ^ m <= extent
            /\ extent < 2 ^ (m + 1)
       /\ (texImage2D.generateMipmaps /\ texImage2D.size = <<256, 128>>) => m = 8

\* mipCount was read as 8 from a texture of 256 x 128 with mipmaps.
C16_Witness ==
  /\ ret.op = "mipCount"
  /\ texImage2D.generateMipmaps
  /\ texImage2D.size = <<256, 128>>
  /\ ret.value = 8

\* What dispose() calls have released of a texture.
ReleasedOnce(t, calls) ==
  IF calls >= 1
    THEN t.disposed /\ t.deleteTexture = 1 /\ t.disposeResource = 1
    ELSE ~t.disposed /\ t.deleteTexture = 0 /\ t.disposeResource = 0

\* C17: however many dispose() calls an object received, its release ran once
\* if there was a call and never otherwise: deleteTexture and disposeResource
\* for a TexImage2D, the disposal of its texture and releaseImage for a
\* LayerImage, deleteFramebuffer for a Framebuffer; the object stays disposed.
C17_DisposeReleasesOnce ==
  /\ texImage2D.exists => ReleasedOnce(texImage2D, texImage2D.disposeCalls)
  /\ layerImage.exists =>
       /\ ReleasedOnce(layerImage.texImage2D, layerImage.texImage2D.disposeCalls)
       /\ layerImage.disposeCalls >= 1 =>
            /\ layerImage.disposed
            /\ layerImage.releaseImage = 1
            /\ layerImage.close <= 1
            /\ layerImage.image = "undefined"
            /\ layerImage.texImage2D.disposed
       /\ layerImage.disposeCalls = 0 =>
            /\ ~layerImage.disposed
            /\ layerImage.releaseImage = 0 /\ layerImage.close = 0
  /\ framebuffer.exists =>
       IF framebuffer.disposeCalls >= 1
         THEN framebuffer.disposed /\ framebuffer.deleteFramebuffer = 1
         ELSE ~framebuffer.disposed /\ framebuffer.deleteFramebuffer = 0

\* Each of the three objects received two dispose() calls or more, and the
\* texture of the LayerImage was disposed through the LayerImage and directly.
C17_Witness ==
  /\ texImage2D.exists /\ texImage2D.disposeCalls >= 2
  /\ layerImage.exists /\ layerImage.disposeCalls >= 2
  /\ layerImage.texImage2D.disposeCalls >= 2
  /\ layerImage.close = 1
  /\ framebuffer.exists /\ framebuffer.disposeCalls >= 2

\* C18 as stated: constructing a TexImage2D from a number of images that is
\* neither 1 nor, for a cube map, a positive multiple of 6 throws, and a
\* construction that does not throw has loaded every image it was given.
C18_MalformedInputThrows ==
  ret.op = "newTexImage2D" =>
    LET n == ret.value.images
        valid == \/ n = 1
                 \/ /\ ret.value.target = "TextureCubeMap"
                    /\ n > 0 /\ n % 6 = 0
    IN /\ ~valid => ~ret.ok
       /\ ret.ok => ret.value.loaded = n

C22_CountersAdvanceByOne ==
  [][/\ ret'.op = "render" =>
          /\ renderId' = renderId + 1
          /\ layerVersion' = layerVersion
          /\ offlineLayerVersion' = layerVersion'
     /\ ret'.op = "layers" =>
          /\ layerVersion' = layerVersion + 1
          /\ renderId' = renderId
     /\ ret'.op \notin {"render", "layers"} =>
          /\ renderId' = renderId
          /\ layerVersion' = layerVersion
     /\ renderId' >= renderId
     /\ layerVersion' >= layerVersion
     /\ offlineLayerVersion' >= offlineLayerVersion
     /\ offlineLayerVersion' <= layerVersion']_vars

\* Two assignments between two render() calls: the version last composited
\* caught up from 0 to 2 at the second render().
C22_Witness ==
  /\ ret.op = "render" /\ renderId = 2
  /\ layerVersion = 2 /\ offlineLayerVersion = 2

\* Task t resolved with the texture of the LayerImage that is resident for
\* its url.
ResolvedResident(t) ==
  /\ tasks[t].status = "resolved"
  /\ tasks[t].result # NoImage
  /\ layerImageCache[tasks[t].url] = tasks[t].result
  /\ ~layerImages[tasks[t].result].disposed

\* C23: loadTexImage2D(url) has url in desiredImages when it returns; and a
\* task that fetches comes to resolve with the texture of the LayerImage
\* resident for its url, unless its fetch fails or url is discarded while it
\* is pending.
C23_LoadLeadsToResident ==
  /\ [][\A u \in Urls :
          (ret'.op = "load" /\ ret'.url = u) => u \in desiredImages']_vars
  /\ \A t \in 1..MaxTasks :
       (t \in TaskIds /\ Pending(t)) ~>
         (t \in TaskIds /\ (\/ ResolvedResident(t)
                            \/ tasks[t].status = "rejected"
                            \/ tasks[t].discarded))

\* A task that fetched and saw no discard resolved with the resident texture.
C23_Witness ==
  \E t \in TaskIds :
    /\ tasks[t].hadToFetch /\ ~tasks[t].discarded
    /\ ResolvedResident(t)

\* C24: readPixels throws and issues no gl.readPixels when the framebuffer
\* has no Color0 attachment, when its pixel format is not RGBA, when it is not
\* complete, or when pixelBuffer is shorter than the pixels; otherwise it
\* issues one; and whichever way it is left, the framebuffer bound is the one
\* that was bound at the call.
C24_ReadPixelsFailsCleanly ==
  ret.op = "readPixels" =>
    LET fb == ret.value.framebuffer
        bad == \/ ~fb.color0
               \/ fb.pixelFormat # "RGBA"
               \/ ~fb.complete
               \/ ret.value.byteLength < fb.pixelByteLength
    IN /\ bad => (~ret.ok /\ ret.value.error # "" /\ ret.value.glReadPixels = 0)
       /\ ~bad => (ret.ok /\ ret.value.glReadPixels = 1)
       /\ contextFramebuffer = ret.value.oldFramebuffer

\* readPixels threw for a complete RGBA framebuffer because the buffer was one
\* byte short, while another framebuffer was bound, which still is.
C24_Witness ==
  /\ ret.op = "readPixels" /\ ~ret.ok
  /\ ret.value.error = "pixelBuffer too small"
  /\ ret.value.byteLength = 15
  /\ contextFramebuffer \in ReadableFramebuffers
  /\ contextFramebuffer # ret.value.framebuffer

\* C25: loadTexImage2D(url, image) with no promise stored for url starts no
\* fetch and returns with a resolved task whose LayerImage is resident for url;
\* with a promise stored it returns that promise and changes no cache; and a
\* task that did not fetch never changes its outcome afterwards.
C25_DecodedImageLoadsSynchronously ==
  [][/\ \A u \in Urls :
          (ret'.op = "loadImage" /\ ret'.url = u) =>
            IF texImage2DPromiseCache[u] = NoTask
              THEN /\ ret'.task = Len(tasks) + 1
                   /\ Len(tasks') = Len(tasks) + 1
                   /\ tasks'[ret'.task].status = "resolved"
                   /\ ~tasks'[ret'.task].hadToFetch
                   /\ tasks'[ret'.task].result # NoImage
                   /\ layerImageCache'[u] = tasks'[ret'.task].result
                   /\ u \in desiredImages'
              ELSE /\ ret'.task = texImage2DPromiseCache[u]
                   /\ tasks' = tasks
                   /\ layerImageCache' = layerImageCache
                   /\ layerImages' = layerImages
                   /\ texImage2DPromiseCache' = texImage2DPromiseCache
     /\ \A t \in TaskIds :
          ~tasks[t].hadToFetch =>
            /\ tasks'[t].status = "resolved"
            /\ tasks'[t].result = tasks[t].result]_vars

\* A task that was given its image is resolved, and its url was discarded
\* afterwards: the LayerImage is disposed, the task is not cancelled.
C25_Witness ==
  \E t \in TaskIds :
    /\ ~tasks[t].hadToFetch
    /\ tasks[t].status = "resolved"
    /\ layerImages[tasks[t].result].disposed
    /\ \E t2 \in TaskIds : tasks[t2].hadToFetch

\* C26: every url with an entry in texImage2DPromiseCache or in
\* layerImageCache is in desiredImages, and no LayerImage in layerImageCache is
\* disposed.
C26_CachesWithinDesired ==
  \A u \in Urls :
    /\ texImage2DPromiseCache[u] # NoTask => u \in desiredImages
    /\ layerImageCache[u] # NoImage =>
         /\ u \in desiredImages
         /\ ~layerImages[layerImageCache[u]].disposed

\* One url is resident with its promise stored while a LayerImage made earlier
\* has been disposed by a discard.
C26_Witness ==
  /\ \E u \in Urls :
       layerImageCache[u] # NoImage /\ texImage2DPromiseCache[u] # NoTask
  /\ \E i \in ImageIds : layerImages[i].disposed
  /\ \E v \in Urls : v \notin desiredImages

\* C27 as stated: every LayerImage created is the layerImageCache entry of
\* its url or is disposed, and every bitmap a task fetched is owned by such a
\* LayerImage or released.
C27_NoLeak ==
  /\ \A i \in ImageIds :
       layerImageCache[layerImages[i].url] = i \/ layerImages[i].disposed
  /\ \A t \in TaskIds :
       (tasks[t].hadToFetch /\ tasks[t].bitmap = "held") =>
         \/ layerImageCache[tasks[t].url] = tasks[t].result
         \/ layerImages[tasks[t].result].image = "released"

\* C28 as stated: when render() has returned, the write target holds in every
\* region the composite of the current layer stack.
C28_PresentedTargetIsComposite ==
  ret.op = "render" =>
    \A p \in Cells : writePixels[p] = Below(Len(layers) + 1, p)

\* C29 as stated: a render() discards no resident image that the current
\* layer stack names as the url of a layer or of its mask.
C29_ReferencedImagesSurvive ==
  [][renderId' = renderId + 1 =>
       \A k \in 1..Len(layers) :
         \A u \in {layers[k].url} \cup
                  (IF layers[k].mask # NoMask THEN {layers[k].mask.url} ELSE {}) :
           layerImageCache[u] # NoImage =>
             /\ layerImageCache'[u] = layerImageCache[u]
             /\ ~layerImages'[layerImageCache[u]].disposed]_vars

\* C30 as stated: loadTexImage2D(url) after the task stored for url was
\* rejected starts a new fetch and returns a new task.
C30_RejectedTaskIsNotReturned ==
  [][\A u \in Urls :
       (/\ ret'.op = "load" /\ ret'.url = u
        /\ texImage2DPromiseCache[u] # NoTask
        /\ tasks[texImage2DPromiseCache[u]].status = "rejected") =>
         /\ ret'.task # texImage2DPromiseCache[u]
         /\ tasks'[ret'.task].status = "fetching"]_vars

\* C31 as stated: in a render() no blend draw names as layerMap or maskMap a
\* texture of a LayerImage that was disposed before the draw (layers built
\* without a loaded texture are outside the claim).
C31_NoBlendSamplesDisposedTexture ==
  [][renderId' = renderId + 1 =>
       \A i \in OpsOfKind(ops', "blend") :
         \A s \in ops'[i].samplers :
           (s[1] \in {"layerMap", "maskMap"} /\ s[2][2] # NoImage) =>
             ~layerImages[s[2][2]].disposed]_vars

====
